---- MODULE Spec2Model ----
(***************************************************************************)
(* A model of src/src/main.rs: the per-frame simulation of the arena       *)
(* shooter (Bevy app with the states Playing / GameOver).                  *)
(*                                                                         *)
(* One frame of the engine's Main schedule is modelled as                  *)
(*   First (the clock advances) -> StateTransition (OnEnter systems)       *)
(*   -> Update (every system once, in any order) -> the command queues of  *)
(*   the Update systems are applied.                                       *)
(* The Update systems of main() carry no ordering constraint, so the       *)
(* engine may run them in any order; their Commands are deferred until all *)
(* of them have run.  Two systems can tell their order apart only through  *)
(* the Transform tables: each table is written by one system (the player's *)
(* by move_player, the enemies' by move_enemies_toward_player, the         *)
(* bullets' by bullet_movement_system) and read by others.  A reader the   *)
(* engine runs before the writer sees the table as the frame started       *)
(* (start), one it runs after the writer sees the moved table.  The model  *)
(* runs the systems in the sequence UpdateOrder and lets every reader      *)
(* choose on which side of each writer it ran; the choices offered are     *)
(* exactly those some order of the systems produces.                       *)
(*                                                                         *)
(* Lengths are whole world units, times are milliseconds, unit vectors are *)
(* fixed-point with three decimals (1000 = 1.0).                           *)
(*                                                                         *)
(* Spec runs the program from its construction.  SpecNoMouse is the same   *)
(* run without mouse presses, one frame longer.  SpecOverlap runs one      *)
(* frame from worlds placed around the two collision radii.                *)
(***************************************************************************)
EXTENDS Integers, Sequences, FiniteSets

VARIABLES
    state,          \* State<GameState>: "Playing" | "GameOver"
    next_state,     \* NextState<GameState>: "Unchanged" | "Playing" | "GameOver"
    score,          \* Score.0
    timer,          \* EnemySpawnTimer.0
    players,        \* entities with Player: sequence of [pos, in_game]
    enemies,        \* entities with Enemy: sequence of [kind, health, pos, in_game]
                    \*   and the history field born (the round that spawned it)
    bullets,        \* entities with Bullet: sequence of [pos, direction, in_game]
                    \*   and the history fields moved (bullet_movement_system moved it)
                    \*   and hits (hits it made in bullet_enemy_collision_system)
    game_over_text, \* number of entities with GameOverText
    commands,       \* the deferred command queues of the Update systems
    pc,             \* position in the frame: "Startup" | "First" | "StateTransition" | "Update"
    ran,            \* the Update systems that have run in this frame
    start,          \* the Transform tables as Update started: [players, enemies, bullets]
    enemies_after_player, \* move_enemies_toward_player ran after move_player
    dt,             \* Time::delta of this frame, in milliseconds
    frame,          \* number of frames started
    frame_start_elapsed, \* history: timer.elapsed when the frame started
    destroyed_reward,    \* history: kill rewards of the enemies removed by bullets this round
    round,          \* history: rounds started (times Playing was entered)
    entered_frame,  \* history: the frame in which the current state was entered
    created,        \* history: entities the last applied command queues created
    requests,       \* history: next_state.set(GameOver) calls of the last run of
                    \*   enemy_player_collision_system
    budget,         \* the inputs of the run: [frames, presses], the frames it lasts
                    \*   and the left-button presses delivered in it
    presses_seen,   \* input history: left-button presses delivered so far
    moves_seen      \* input history: frames in which the held keys gave a direction

vars == <<state, next_state, score, timer, players, enemies, bullets, game_over_text,
          commands, pc, ran, start, enemies_after_player, dt, frame, frame_start_elapsed, destroyed_reward,
          round, entered_frame, created, requests,
          budget, presses_seen, moves_seen>>

----------------------------------------------------------------------------
(* Bounds of the model *)

(* frames run *)
MaxFrames == 4
(* left-button presses delivered over the run; several may arrive in one frame *)
MaxPresses == 2
(* frames run when the mouse button is never pressed *)
MaxFramesNoMouse == 5
(* frames run from a world placed around the collision radii *)
OverlapFrames == 1
(* frames in which the held movement keys give a direction *)
MaxMoves == 1

(* Time::delta values the clock may report (ms): a frame of half a timer
   period, and a long frame that spans several periods *)
DeltaSet == {500, 9000}

(* held movement keys *)
KeySets == {{}, {"KeyA"}, {"KeyD"}, {"KeyA", "KeyD"}, {"KeyW", "KeyS"}}

(* cursor world positions (viewport_to_world_2d of the window cursor) *)
CursorSet == {<<1000, 0>>}

(* rng.gen_range(0.0..TAU) as the unit vector (cos, sin), fixed-point *)
AngleSet == {<<1000, 0>>}

(* rng.gen_range(300.0..500.0) *)
DistanceSet == {300}

(* positions of an enemy around the radius PLAYER_RADIUS + ENEMY_RADIUS of a
   player at the origin: at distance 19, 20 (twice) and 21 *)
EnemyPoints == {<<19, 0>>, <<20, 0>>, <<12, 16>>, <<21, 0>>}

(* positions of a bullet, relative to the enemy, around the radius
   BULLET_RADIUS + ENEMY_RADIUS: at distance 14, 15 (twice) and 16 *)
BulletOffsets == {<<14, 0>>, <<15, 0>>, <<9, 12>>, <<16, 0>>}

----------------------------------------------------------------------------
(* Program constants *)

PLAYER_RADIUS == 10
ENEMY_RADIUS == 10
BULLET_RADIUS == 5
PlayerSpeed == 300
BulletSpeed == 600
BulletRange == 5000
TimerDuration == 1000

EnemyType == {"Basic", "Fast", "Tank"}

InitialHealth(kind) ==
    CASE kind = "Basic" -> 1
      [] kind = "Fast" -> 1
      [] kind = "Tank" -> 3

KillReward(kind) ==
    CASE kind = "Basic" -> 1
      [] kind = "Fast" -> 2
      [] kind = "Tank" -> 5

EnemySpeed(kind) ==
    CASE kind = "Basic" -> 150
      [] kind = "Fast" -> 300
      [] kind = "Tank" -> 75

----------------------------------------------------------------------------
(* Vec2 arithmetic *)

ZERO == <<0, 0>>

Div(a, b) == IF a >= 0 THEN a \div b ELSE -((-a) \div b)

RECURSIVE IsqrtIter(_, _, _)
IsqrtIter(n, lo, hi) ==
    IF lo >= hi THEN lo
    ELSE LET mid == (lo + hi + 1) \div 2
         IN  IF mid * mid <= n THEN IsqrtIter(n, mid, hi)
                               ELSE IsqrtIter(n, lo, mid - 1)

Isqrt(n) == IsqrtIter(n, 0, 46340)

Add(a, b) == <<a[1] + b[1], a[2] + b[2]>>
Sub(a, b) == <<a[1] - b[1], a[2] - b[2]>>
LengthSquared(v) == v[1] * v[1] + v[2] * v[2]
DistanceSquared(a, b) == LengthSquared(Sub(a, b))

(* Vec2::normalize: the unit vector of v (v /= ZERO), fixed-point *)
Normalize(v) ==
    LET w == IF LengthSquared(v) <= 2000 THEN <<v[1] * 1000, v[2] * 1000>> ELSE v
        n == Isqrt(LengthSquared(w))
    IN  <<Div(w[1] * 1000, n), Div(w[2] * 1000, n)>>

(* unit * speed * time.delta_secs() *)
Displacement(unit, speed, delta) ==
    LET len == Div(speed * delta, 1000)
    IN  <<Div(unit[1] * len, 1000), Div(unit[2] * len, 1000)>>

----------------------------------------------------------------------------
(* Timer::tick of a TimerMode::Repeating timer *)

TimerNew == [elapsed |-> 0, finished |-> FALSE, times_finished_this_tick |-> 0]

TimerTick(t, delta) ==
    LET e == t.elapsed + delta
    IN  IF e >= TimerDuration
        THEN [elapsed |-> e % TimerDuration, finished |-> TRUE,
              times_finished_this_tick |-> e \div TimerDuration]
        ELSE [elapsed |-> e, finished |-> FALSE, times_finished_this_tick |-> 0]

JustFinished(t) == t.finished

----------------------------------------------------------------------------
(* Schedules *)

Systems == {"move_player", "shoot_bullet", "bullet_movement_system", "spawn_enemies",
            "move_enemies_toward_player", "restart_on_r",
            "bullet_enemy_collision_system", "enemy_player_collision_system"}

(* variant of RunIf: spawn_enemies registered without its run_if *)
RunIfSpawnUngated(s) ==
    CASE s \in {"move_player", "shoot_bullet", "move_enemies_toward_player"}
            -> state = "Playing"
      [] s = "restart_on_r" -> state = "GameOver"
      [] OTHER -> TRUE

(* variant of RunIf: restart_on_r registered without its run_if *)
RunIfRestartUngated(s) ==
    CASE s \in {"move_player", "shoot_bullet", "spawn_enemies", "move_enemies_toward_player"}
            -> state = "Playing"
      [] OTHER -> TRUE

(* run_if(in_state(..)) of main() *)
RunIf(s) ==
    CASE s \in {"move_player", "shoot_bullet", "spawn_enemies", "move_enemies_toward_player"}
            -> state = "Playing"
      [] s = "restart_on_r" -> state = "GameOver"
      [] OTHER -> TRUE

Scheduled == {s \in Systems : RunIf(s)}

(* the sequence in which the model runs the systems: the writers of the
   Transform tables first *)
UpdateOrder == <<"move_player", "move_enemies_toward_player", "bullet_movement_system",
                 "shoot_bullet", "spawn_enemies", "bullet_enemy_collision_system",
                 "enemy_player_collision_system", "restart_on_r">>

NoCommands == [shoot_bullet |-> <<>>, spawn_enemies |-> <<>>,
               bullet_movement_system |-> <<>>,
               hit_bullets |-> <<>>, hit_enemies |-> <<>>]

NoStart == [players |-> <<>>, enemies |-> <<>>, bullets |-> <<>>]

(* the world as main() builds it *)
Constructed ==
    /\ state = "Playing"
    /\ next_state = "Unchanged"
    /\ score = 0
    /\ timer = TimerNew
    /\ players = <<>>
    /\ enemies = <<>>
    /\ bullets = <<>>
    /\ game_over_text = 0
    /\ commands = NoCommands
    /\ pc = "Startup"
    /\ ran = {}
    /\ start = NoStart
    /\ enemies_after_player = TRUE
    /\ dt = 0
    /\ frame = 0
    /\ frame_start_elapsed = 0
    /\ destroyed_reward = 0
    /\ round = 0
    /\ entered_frame = 0
    /\ created = [enemies |-> 0, bullets |-> 0]
    /\ requests = 0
    /\ presses_seen = 0
    /\ moves_seen = 0

Init ==
    /\ Constructed
    /\ budget = [frames |-> MaxFrames, presses |-> MaxPresses]

(* a longer run in which the left mouse button is never pressed *)
InitNoMouse ==
    /\ Constructed
    /\ budget = [frames |-> MaxFramesNoMouse, presses |-> 0]

----------------------------------------------------------------------------
(* Sequence helpers *)

Range(s) == {s[i] : i \in 1..Len(s)}

RECURSIVE WithoutFrom(_, _, _)
WithoutFrom(s, drop, i) ==
    IF i > Len(s) THEN <<>>
    ELSE IF i \in drop THEN WithoutFrom(s, drop, i + 1)
         ELSE <<s[i]>> \o WithoutFrom(s, drop, i + 1)

(* the entities of table s that survive the despawn of the indices in drop *)
Without(s, drop) == WithoutFrom(s, drop, 1)

RECURSIVE SumReward(_, _)
SumReward(es, idx) ==
    IF idx = {} THEN 0
    ELSE LET i == CHOOSE j \in idx : TRUE
         IN  KillReward(es[i].kind) + SumReward(es, idx \ {i})

RECURSIVE Orders(_)
(* every order in which a query may visit the indices in S *)
Orders(S) ==
    IF S = {} THEN {<<>>}
    ELSE UNION {{<<i>> \o o : o \in Orders(S \ {i})} : i \in S}

Positions(table) == [i \in 1..Len(table) |-> table[i].pos]

----------------------------------------------------------------------------
(* OnEnter(GameState::Playing): setup_new_game *)

NewPlayer == [pos |-> ZERO, in_game |-> TRUE]

(* variant of ResetScore: a restart that keeps the old score *)
ScoreKept == score

ResetScore == 0

SetupNewGame ==
    /\ score' = ResetScore
    /\ game_over_text' = 0
    /\ players' = Append(players, NewPlayer)
    /\ destroyed_reward' = 0
    /\ round' = round + 1

(* OnEnter(GameState::GameOver): cleanup_ingame_entities, spawn_game_over_text *)

NotInGame(e) == ~e.in_game

(* variant of CleanupIngameEntities: only the player is despawned *)
CleanupOnlyPlayer ==
    /\ players' = SelectSeq(players, NotInGame)
    /\ enemies' = enemies
    /\ bullets' = bullets

(* variant of CleanupIngameEntities: nothing is despawned *)
CleanupNothing ==
    /\ players' = players
    /\ enemies' = enemies
    /\ bullets' = bullets

(* variant of CleanupIngameEntities: the player is not despawned *)
CleanupMissesPlayer ==
    /\ players' = players
    /\ enemies' = SelectSeq(enemies, NotInGame)
    /\ bullets' = SelectSeq(bullets, NotInGame)

CleanupIngameEntities ==
    /\ players' = SelectSeq(players, NotInGame)
    /\ enemies' = SelectSeq(enemies, NotInGame)
    /\ bullets' = SelectSeq(bullets, NotInGame)

(* variant of SpawnGameOverText: one message for every request of the frame *)
SpawnGameOverTextPerRequest == game_over_text' = game_over_text + requests

SpawnGameOverText == game_over_text' = game_over_text + 1

(* The Startup pass of the engine: the initial state Playing is entered *)
Startup ==
    /\ pc = "Startup"
    /\ SetupNewGame
    /\ pc' = "First"
    /\ UNCHANGED <<state, next_state, timer, enemies, bullets, commands, ran, start,
                   enemies_after_player, dt, frame, frame_start_elapsed,
                   presses_seen, moves_seen,
                   entered_frame, created, requests, budget>>

(* First: the clock reports the time elapsed since the previous frame *)
First ==
    /\ pc = "First"
    /\ frame < budget.frames
    /\ \E delta \in DeltaSet : dt' = delta
    /\ frame' = frame + 1
    /\ frame_start_elapsed' = timer.elapsed
    /\ pc' = "StateTransition"
    /\ UNCHANGED <<state, next_state, score, timer, players, enemies, bullets,
                   game_over_text, commands, ran, start, enemies_after_player,
                   destroyed_reward, presses_seen, moves_seen,
                   round, entered_frame, created, requests, budget>>

(* Update starts on the tables the StateTransition schedule left *)
BeginUpdate ==
    /\ pc' = "Update"
    /\ ran' = {}
    /\ start' = [players |-> players', enemies |-> enemies', bullets |-> bullets']
    /\ enemies_after_player' = TRUE

(* StateTransition: NextState is taken and the OnEnter schedule of the new
   state runs; its commands are applied before Update starts *)
NoTransition ==
    /\ pc = "StateTransition"
    /\ next_state = "Unchanged"
    /\ UNCHANGED <<state, next_state, score, timer, players, enemies, bullets,
                   game_over_text, commands, dt, frame, frame_start_elapsed,
                   destroyed_reward, presses_seen, moves_seen,
                   round, entered_frame, created, requests, budget>>
    /\ BeginUpdate

EnterGameOver ==
    /\ pc = "StateTransition"
    /\ next_state = "GameOver"
    /\ state' = "GameOver"
    /\ next_state' = "Unchanged"
    /\ entered_frame' = frame
    /\ CleanupIngameEntities
    /\ SpawnGameOverText
    /\ UNCHANGED <<score, timer, commands, dt, frame, frame_start_elapsed,
                   destroyed_reward, presses_seen, moves_seen,
                   round, created, requests, budget>>
    /\ BeginUpdate

EnterPlaying ==
    /\ pc = "StateTransition"
    /\ next_state = "Playing"
    /\ state' = "Playing"
    /\ next_state' = "Unchanged"
    /\ entered_frame' = frame
    /\ SetupNewGame
    /\ UNCHANGED <<timer, enemies, bullets, commands, dt, frame, frame_start_elapsed,
                   presses_seen, moves_seen,
                   created, requests, budget>>
    /\ BeginUpdate

----------------------------------------------------------------------------
(* The Update systems *)

Earlier(s) ==
    {UpdateOrder[j] : j \in {i \in 1..Len(UpdateOrder) :
                               \E k \in (i + 1)..Len(UpdateOrder) : UpdateOrder[k] = s}}

CanRun(s) ==
    /\ pc = "Update"
    /\ s \notin ran
    /\ RunIf(s)
    /\ (Earlier(s) \cap Scheduled) \subseteq ran

Done(s) == ran' = ran \cup {s}

(* what a system that reads a table may see of it: the table as the frame
   started if it ran before the table's writer, the current one if after *)
Views(table_at_start, table_now) == {table_at_start, table_now}

(* variant of KeyDirection: opposite keys do not cancel, the positive one wins *)
KeyDirectionNoCancel(keys) ==
    <<IF "KeyD" \in keys THEN 1 ELSE IF "KeyA" \in keys THEN -1 ELSE 0,
      IF "KeyW" \in keys THEN 1 ELSE IF "KeyS" \in keys THEN -1 ELSE 0>>

(* move_player *)
KeyDirection(keys) ==
    <<(IF "KeyD" \in keys THEN 1 ELSE 0) - (IF "KeyA" \in keys THEN 1 ELSE 0),
      (IF "KeyW" \in keys THEN 1 ELSE 0) - (IF "KeyS" \in keys THEN 1 ELSE 0)>>

MovedPlayer(p, keys) ==
    LET direction == KeyDirection(keys)
    IN  IF direction /= ZERO
        THEN [p EXCEPT !.pos = Add(@, Displacement(Normalize(direction), PlayerSpeed, dt))]
        ELSE p

move_player ==
    /\ CanRun("move_player")
    /\ \E keys \in KeySets :
         /\ KeyDirection(keys) /= ZERO => moves_seen < MaxMoves
         /\ moves_seen' = moves_seen + (IF KeyDirection(keys) /= ZERO THEN 1 ELSE 0)
         /\ players' = IF Len(players) = 1
                       THEN <<MovedPlayer(players[1], keys)>>
                       ELSE players
    /\ Done("move_player")
    /\ UNCHANGED <<state, next_state, score, timer, enemies, bullets, game_over_text,
                   commands, pc, start, enemies_after_player, dt, frame,
                   frame_start_elapsed, destroyed_reward, presses_seen,
                   round, entered_frame, created, requests, budget>>

(* move_enemies_toward_player *)
MovedEnemy(e, player_pos) ==
    LET direction == Sub(player_pos, e.pos)
    IN  IF direction /= ZERO
        THEN [e EXCEPT !.pos = Add(@, Displacement(Normalize(direction),
                                                   EnemySpeed(e.kind), dt))]
        ELSE e

move_enemies_toward_player ==
    /\ CanRun("move_enemies_toward_player")
    /\ \E player_q \in Views(start.players, players) :
         /\ enemies' = IF Len(player_q) = 1
                       THEN [i \in 1..Len(enemies) |->
                               MovedEnemy(enemies[i], player_q[1].pos)]
                       ELSE enemies
         /\ enemies_after_player' = (player_q = players)
    /\ Done("move_enemies_toward_player")
    /\ UNCHANGED <<state, next_state, score, timer, players, bullets, game_over_text,
                   commands, pc, start, dt, frame, frame_start_elapsed,
                   destroyed_reward, presses_seen, moves_seen,
                   round, entered_frame, created, requests, budget>>

(* bullet_movement_system *)
MovedBullet(b) ==
    [b EXCEPT !.pos = Add(@, Displacement(b.direction, BulletSpeed, dt)),
              !.moved = TRUE]

(* variant of OutOfRange: squared length compared with the plain range *)
OutOfRangeLengthSquared(pos) == LengthSquared(pos) > BulletRange

OutOfRange(pos) == LengthSquared(pos) > BulletRange * BulletRange

RECURSIVE OutOfRangeFrom(_, _)
OutOfRangeFrom(bs, i) ==
    IF i > Len(bs) THEN <<>>
    ELSE IF OutOfRange(bs[i].pos) THEN <<i>> \o OutOfRangeFrom(bs, i + 1)
         ELSE OutOfRangeFrom(bs, i + 1)

bullet_movement_system ==
    /\ CanRun("bullet_movement_system")
    /\ bullets' = [i \in 1..Len(bullets) |-> MovedBullet(bullets[i])]
    /\ commands' = [commands EXCEPT !.bullet_movement_system = OutOfRangeFrom(bullets', 1)]
    /\ Done("bullet_movement_system")
    /\ UNCHANGED <<state, next_state, score, timer, players, enemies, game_over_text,
                   pc, start, enemies_after_player, dt, frame, frame_start_elapsed,
                   destroyed_reward, presses_seen, moves_seen,
                   round, entered_frame, created, requests, budget>>

(* variant of NewBullet: the bullet is spawned without InGameEntity *)
NewBulletUntagged(player_tf, world_pos) ==
    [pos |-> player_tf, direction |-> Normalize(Sub(world_pos, player_tf)),
     in_game |-> FALSE, moved |-> FALSE, hits |-> 0]

(* shoot_bullet.  Every press read in the frame spawns a bullet at the player.
   A cursor exactly on the player (normalize of the zero vector) is left out. *)
NewBullet(player_tf, world_pos) ==
    [pos |-> player_tf, direction |-> Normalize(Sub(world_pos, player_tf)),
     in_game |-> TRUE, moved |-> FALSE, hits |-> 0]

shoot_bullet ==
    /\ CanRun("shoot_bullet")
    /\ \E presses \in 0..(budget.presses - presses_seen), world_pos \in CursorSet,
          player_q \in Views(start.players, players) :
         /\ presses_seen' = presses_seen + presses
         /\ commands' = IF Len(player_q) = 1 /\ world_pos /= player_q[1].pos
                        THEN [commands EXCEPT !.shoot_bullet =
                                [i \in 1..presses |-> NewBullet(player_q[1].pos, world_pos)]]
                        ELSE commands
    /\ Done("shoot_bullet")
    /\ UNCHANGED <<state, next_state, score, timer, players, enemies, bullets,
                   game_over_text, pc, start, enemies_after_player, dt, frame,
                   frame_start_elapsed, destroyed_reward, moves_seen,
                   round, entered_frame, created, requests, budget>>

(* variant of NewEnemy: the enemy is spawned without InGameEntity *)
NewEnemyUntagged(player_tf, angle, distance, kind) ==
    [kind |-> kind, health |-> InitialHealth(kind), in_game |-> FALSE, born |-> round,
     pos |-> <<player_tf[1] + Div(angle[1] * distance, 1000),
               player_tf[2] + Div(angle[2] * distance, 1000)>>]

(* spawn_enemies *)
NewEnemy(player_tf, angle, distance, kind) ==
    [kind |-> kind, health |-> InitialHealth(kind), in_game |-> TRUE, born |-> round,
     pos |-> <<player_tf[1] + Div(angle[1] * distance, 1000),
               player_tf[2] + Div(angle[2] * distance, 1000)>>]

(* variant of SpawnCount: one enemy per finished period of the tick *)
SpawnPerPeriod(t) == t.times_finished_this_tick

SpawnCount(t) == IF JustFinished(t) THEN 1 ELSE 0

spawn_enemies ==
    /\ CanRun("spawn_enemies")
    /\ timer' = TimerTick(timer, dt)
    /\ \E angle \in AngleSet, distance \in DistanceSet, kind \in EnemyType,
          player_q \in Views(start.players, players) :
         commands' = IF Len(player_q) = 1
                     THEN [commands EXCEPT !.spawn_enemies =
                             [i \in 1..SpawnCount(timer') |->
                                NewEnemy(player_q[1].pos, angle, distance, kind)]]
                     ELSE commands
    /\ Done("spawn_enemies")
    /\ UNCHANGED <<state, next_state, score, players, enemies, bullets, game_over_text,
                   pc, start, enemies_after_player, dt, frame, frame_start_elapsed,
                   destroyed_reward, presses_seen, moves_seen,
                   round, entered_frame, created, requests, budget>>

(* variant of BulletHits: a bullet at exactly the sum of the radii hits *)
BulletHitsInclusive(bullet_pos, enemy_pos) ==
    DistanceSquared(bullet_pos, enemy_pos)
        <= (BULLET_RADIUS + ENEMY_RADIUS) * (BULLET_RADIUS + ENEMY_RADIUS)

(* bullet_enemy_collision_system *)
BulletHits(bullet_pos, enemy_pos) ==
    DistanceSquared(bullet_pos, enemy_pos)
        < (BULLET_RADIUS + ENEMY_RADIUS) * (BULLET_RADIUS + ENEMY_RADIUS)

(* variant of Hit: the enemy counts as dead only below zero health *)
HitDeadBelowZero(acc, bi, ei) ==
    LET health == acc.health[ei] - 1
        dead == health < 0
    IN  [acc EXCEPT !.hit_bullets = Append(@, bi),
                    !.health[ei] = health,
                    !.hits[bi] = @ + 1,
                    !.score = IF dead THEN @ + KillReward(enemies[ei].kind) ELSE @,
                    !.hit_enemies = IF dead THEN Append(@, ei) ELSE @]

(* the body of `if distance < BULLET_RADIUS + ENEMY_RADIUS`, up to the break *)
Hit(acc, bi, ei) ==
    LET health == acc.health[ei] - 1
        dead == health <= 0
    IN  [acc EXCEPT !.hit_bullets = Append(@, bi),
                    !.health[ei] = health,
                    !.hits[bi] = @ + 1,
                    !.score = IF dead THEN @ + KillReward(enemies[ei].kind) ELSE @,
                    !.hit_enemies = IF dead THEN Append(@, ei) ELSE @]

RECURSIVE ScanEnemies(_, _, _, _, _, _)

(* variant of AfterHit: the scan goes on after a hit (no break) *)
AfterHitContinue(acc, bullet_tf, enemy_tf, bi, order, k) ==
    ScanEnemies(acc, bullet_tf, enemy_tf, bi, order, k + 1)

(* `break`: the scan of the enemies ends for this bullet *)
AfterHit(acc, bullet_tf, enemy_tf, bi, order, k) == acc

(* the inner loop: bullet bi against the enemies order[k], order[k+1], ... *)
ScanEnemies(acc, bullet_tf, enemy_tf, bi, order, k) ==
    IF k > Len(order) THEN acc
    ELSE IF BulletHits(bullet_tf[bi], enemy_tf[order[k]])
         THEN AfterHit(Hit(acc, bi, order[k]), bullet_tf, enemy_tf, bi, order, k)
         ELSE ScanEnemies(acc, bullet_tf, enemy_tf, bi, order, k + 1)

RECURSIVE ScanBullets(_, _, _, _, _)
(* the outer loop: the bullets bi, bi+1, ... *)
ScanBullets(acc, bullet_tf, enemy_tf, bi, order) ==
    IF bi > Len(bullet_tf) THEN acc
    ELSE ScanBullets(ScanEnemies(acc, bullet_tf, enemy_tf, bi, order, 1),
                     bullet_tf, enemy_tf, bi + 1, order)

(* The order in which the query yields the enemies is the engine's; the outcome
   depends on it only when a bullet overlaps more than one enemy. *)
EnemyOrders(bullet_tf, enemy_tf) ==
    IF \E b \in 1..Len(bullet_tf) :
         Cardinality({e \in 1..Len(enemy_tf) : BulletHits(bullet_tf[b], enemy_tf[e])}) > 1
    THEN Orders(1..Len(enemy_tf))
    ELSE {[i \in 1..Len(enemy_tf) |-> i]}

bullet_enemy_collision_system ==
    /\ CanRun("bullet_enemy_collision_system")
    /\ \E bullet_q \in Views(start.bullets, bullets), enemy_q \in Views(start.enemies, enemies) :
       \E order \in EnemyOrders(Positions(bullet_q), Positions(enemy_q)) :
         LET acc == ScanBullets([health |-> [i \in 1..Len(enemies) |-> enemies[i].health],
                                 score |-> score,
                                 hits |-> [i \in 1..Len(bullets) |-> 0],
                                 hit_bullets |-> <<>>, hit_enemies |-> <<>>],
                                Positions(bullet_q), Positions(enemy_q), 1, order)
         IN  /\ enemies' = [i \in 1..Len(enemies) |->
                              [enemies[i] EXCEPT !.health = acc.health[i]]]
             /\ score' = acc.score
             /\ bullets' = [i \in 1..Len(bullets) |->
                              [bullets[i] EXCEPT !.hits = @ + acc.hits[i]]]
             /\ commands' = [commands EXCEPT !.hit_bullets = acc.hit_bullets,
                                             !.hit_enemies = acc.hit_enemies]
    /\ Done("bullet_enemy_collision_system")
    /\ UNCHANGED <<state, next_state, timer, players, game_over_text, pc, start,
                   enemies_after_player, dt, frame, frame_start_elapsed,
                   destroyed_reward, presses_seen, moves_seen,
                   round, entered_frame, created, requests, budget>>

(* enemy_player_collision_system *)
EnemyTouches(player_pos, enemy_pos) ==
    DistanceSquared(player_pos, enemy_pos)
        < (PLAYER_RADIUS + ENEMY_RADIUS) * (PLAYER_RADIUS + ENEMY_RADIUS)

(* the enemies for which the loop calls next_state.set(GameState::GameOver) *)
Touching(player_q, enemy_q) ==
    IF Len(player_q) = 1
    THEN {i \in 1..Len(enemy_q) : EnemyTouches(player_q[1].pos, enemy_q[i].pos)}
    ELSE {}

PlayerHit(player_q, enemy_q) == Touching(player_q, enemy_q) /= {}

(* The tables enemy_player_collision_system may see: it ran before both
   writers (slot 0), between them (slot 1) or after both (slot 2). *)
CollisionViews ==
    {[players |-> IF slot = 0 \/ (slot = 1 /\ ~enemies_after_player)
                  THEN start.players ELSE players,
      enemies |-> IF slot = 0 \/ (slot = 1 /\ enemies_after_player)
                  THEN start.enemies ELSE enemies] : slot \in 0..2}

enemy_player_collision_system ==
    /\ CanRun("enemy_player_collision_system")
    /\ \E q \in CollisionViews :
         /\ next_state' = IF PlayerHit(q.players, q.enemies) THEN "GameOver" ELSE next_state
         /\ requests' = Cardinality(Touching(q.players, q.enemies))
    /\ Done("enemy_player_collision_system")
    /\ UNCHANGED <<state, score, timer, players, enemies, bullets, game_over_text,
                   commands, pc, start, enemies_after_player, dt, frame,
                   frame_start_elapsed, destroyed_reward, presses_seen, moves_seen,
                   round, entered_frame, created, budget>>

(* restart_on_r *)
restart_on_r ==
    /\ CanRun("restart_on_r")
    /\ \E just_pressed \in BOOLEAN :
         next_state' = IF just_pressed THEN "Playing" ELSE next_state
    /\ Done("restart_on_r")
    /\ UNCHANGED <<state, score, timer, players, enemies, bullets, game_over_text,
                   commands, pc, start, enemies_after_player, dt, frame,
                   frame_start_elapsed, destroyed_reward, presses_seen, moves_seen,
                   round, entered_frame, created, requests, budget>>

(* End of Update: the command queues of the systems are applied *)
DespawnedBullets == Range(commands.bullet_movement_system) \cup Range(commands.hit_bullets)

DespawnedEnemies == Range(commands.hit_enemies)

UpdateDone == pc = "Update" /\ ran = Scheduled

ApplyDeferred ==
    /\ UpdateDone
    /\ bullets' = Without(bullets, DespawnedBullets) \o commands.shoot_bullet
    /\ enemies' = Without(enemies, DespawnedEnemies) \o commands.spawn_enemies
    /\ destroyed_reward' = destroyed_reward + SumReward(enemies, DespawnedEnemies)
    /\ created' = [enemies |-> Len(commands.spawn_enemies),
                   bullets |-> Len(commands.shoot_bullet)]
    /\ commands' = NoCommands
    /\ start' = NoStart
    /\ enemies_after_player' = TRUE
    /\ pc' = "First"
    /\ UNCHANGED <<state, next_state, score, timer, players, game_over_text, ran, dt,
                   frame, frame_start_elapsed, presses_seen, moves_seen,
                   round, entered_frame, requests, budget>>

----------------------------------------------------------------------------

Next ==
    \/ Startup
    \/ First
    \/ NoTransition
    \/ EnterGameOver
    \/ EnterPlaying
    \/ move_player
    \/ shoot_bullet
    \/ bullet_movement_system
    \/ spawn_enemies
    \/ move_enemies_toward_player
    \/ restart_on_r
    \/ bullet_enemy_collision_system
    \/ enemy_player_collision_system
    \/ ApplyDeferred

Spec == Init /\ [][Next]_vars

SpecNoMouse == InitNoMouse /\ [][Next]_vars

(* One frame of a round, from a frame boundary at which an enemy stands at one
   of EnemyPoints from the player and a bullet in flight at one of BulletOffsets
   from the enemy *)
InitOverlap ==
    /\ state = "Playing"
    /\ next_state = "Unchanged"
    /\ score = 0
    /\ timer = TimerNew
    /\ round = 1
    /\ players = <<NewPlayer>>
    /\ \E at \in EnemyPoints, kind \in EnemyType, off \in BulletOffsets :
         /\ enemies = <<[NewEnemy(ZERO, <<1000, 0>>, 300, kind) EXCEPT !.pos = at]>>
         /\ bullets = <<[NewBullet(ZERO, <<1000, 0>>) EXCEPT !.pos = Add(at, off),
                                                            !.moved = TRUE]>>
    /\ game_over_text = 0
    /\ commands = NoCommands
    /\ pc = "First"
    /\ ran = {}
    /\ start = NoStart
    /\ enemies_after_player = TRUE
    /\ dt = 0
    /\ frame = 0
    /\ frame_start_elapsed = 0
    /\ destroyed_reward = 0
    /\ entered_frame = 0
    /\ created = [enemies |-> 0, bullets |-> 0]
    /\ requests = 0
    /\ budget = [frames |-> OverlapFrames, presses |-> MaxPresses]
    /\ presses_seen = 0
    /\ moves_seen = 0

NextOverlap ==
    \/ First
    \/ NoTransition
    \/ move_player
    \/ shoot_bullet
    \/ bullet_movement_system
    \/ spawn_enemies
    \/ move_enemies_toward_player
    \/ bullet_enemy_collision_system
    \/ enemy_player_collision_system
    \/ ApplyDeferred

SpecOverlap == InitOverlap /\ [][NextOverlap]_vars

----------------------------------------------------------------------------
(* Points of a frame *)

(* the state transition of the frame is processed and every command applied *)
UpdateStarts == pc = "Update" /\ ran = {}

(* the frame is over: the Update command queues are applied *)
FrameEnds == pc = "First"

RoundScoped == Len(players) + Len(enemies) + Len(bullets)

----------------------------------------------------------------------------
(* C1: at every frame boundary at most one Player exists, and exactly one
   exists iff the state is Playing *)
C1_SinglePlayer ==
    (UpdateStarts \/ FrameEnds) =>
        /\ Len(players) <= 1
        /\ (Len(players) = 1 <=> state = "Playing")

(* a frame boundary of the second round: a collision and a restart happened *)
C1_Witness ==
    UpdateStarts /\ round = 2 /\ state = "Playing" /\ Len(players) = 1

(* C2: the step that processes Playing -> GameOver leaves no round-scoped
   entity, whatever the last Update created *)
C2_CleanOnGameOver ==
    [][(state = "Playing" /\ state' = "GameOver") => RoundScoped' = 0]_vars

(* GameOver was entered in this frame, and the frame before (the one that
   detected the collision) created an enemy and a bullet *)
C2_Witness ==
    /\ UpdateStarts /\ state = "GameOver" /\ entered_frame = frame
    /\ created.enemies = 1 /\ created.bullets >= 1
    /\ RoundScoped = 0

(* C3: within a round the score never decreases, and at every frame end it is
   the sum of the kill rewards of the enemies bullets destroyed this round,
   each destroyed enemy counted once *)
C3_ScoreIsRewardSum ==
    [][/\ round' = round => score' >= score
       /\ FrameEnds' => score' = destroyed_reward']_vars

(* C4: every enemy that exists at a frame boundary has
   1 <= health <= the initial health of its kind *)
C4_HealthInRange ==
    (UpdateStarts \/ FrameEnds) =>
        \A i \in 1..Len(enemies) :
            /\ enemies[i].health >= 1
            /\ enemies[i].health <= InitialHealth(enemies[i].kind)

(* a frame ends after a bullet destroyed an enemy, with a damaged enemy alive *)
C4_Witness ==
    /\ FrameEnds
    /\ \/ destroyed_reward > 0 /\ Len(enemies) > 0
       \/ \E i \in 1..Len(enemies) : enemies[i].health < InitialHealth(enemies[i].kind)

(* C5: the step that processes GameOver -> Playing leaves score 0, exactly one
   player, at the origin, no enemy and no bullet *)
C5_RestartResets ==
    [][(state = "GameOver" /\ state' = "Playing") =>
          /\ score' = 0
          /\ Len(players') = 1 /\ players'[1].pos = <<0, 0>>
          /\ enemies' = <<>> /\ bullets' = <<>>]_vars

(* the second round starts, after a round in which the player had moved *)
C5_Witness ==
    /\ UpdateStarts /\ round = 2 /\ entered_frame = frame /\ moves_seen > 0
    /\ score = 0 /\ Len(players) = 1 /\ players[1].pos = <<0, 0>>

(* C6: a bullet damages at most one enemy in a frame and, being despawned with
   its first hit, at most one in its life: no bullet that hit survives the frame *)
C6_OneHitPerBullet ==
    /\ \A i \in 1..Len(bullets) : bullets[i].hits <= 1
    /\ FrameEnds => \A i \in 1..Len(bullets) : bullets[i].hits = 0

(* bullet_enemy_collision_system ran on a bullet with two enemies within the
   radius, and the bullet hit one *)
C6_Witness ==
    /\ pc = "Update" /\ "bullet_enemy_collision_system" \in ran
    /\ \E b \in 1..Len(bullets) :
         /\ bullets[b].hits = 1
         /\ \E q \in Views(start.enemies, enemies), r \in Views(start.bullets, bullets) :
              Cardinality({e \in 1..Len(q) : BulletHits(r[b].pos, q[e].pos)}) >= 2

(* C7: the state changes only Playing -> GameOver, on a request made in a frame
   where the live player has an enemy within the radius, and GameOver -> Playing,
   on a request made by restart_on_r in GameOver; GameOver lasts until then *)
C7_Lifecycle ==
    [][/\ state' /= state =>
            \/ state = "Playing" /\ state' = "GameOver" /\ next_state = "GameOver"
            \/ state = "GameOver" /\ state' = "Playing" /\ next_state = "Playing"
       /\ (next_state' = "GameOver" /\ next_state /= "GameOver") =>
            /\ state = "Playing" /\ Len(players) = 1
            /\ \E p \in Views(start.players, players), q \in Views(start.enemies, enemies) :
                 \E i \in 1..Len(q) : DistanceSquared(p[1].pos, q[i].pos) < 20 * 20
       /\ (next_state' = "Playing" /\ next_state /= "Playing") =>
            state = "GameOver" /\ "restart_on_r" \in ran' \ ran]_vars

(* GameOver has lasted into a second frame, and the restart is requested *)
C7_Witness ==
    state = "GameOver" /\ frame > entered_frame /\ next_state = "Playing"

(* C8: a frame creates exactly one enemy, with the initial health of its kind,
   if the state is Playing, a player lives and the timer completes a period in
   it, and no enemy in every other frame *)
C8_OneSpawnPerFinishedFrame ==
    UpdateDone =>
        /\ Len(commands.spawn_enemies) =
             IF state = "Playing" /\ Len(players) = 1
                /\ frame_start_elapsed + dt >= 1000
             THEN 1 ELSE 0
        /\ \A i \in 1..Len(commands.spawn_enemies) :
             commands.spawn_enemies[i].health
                = InitialHealth(commands.spawn_enemies[i].kind)

(* the delta of the frame spanned several periods of the timer *)
C8_Witness ==
    /\ UpdateDone /\ state = "Playing"
    /\ frame_start_elapsed + dt >= 2 * 1000
    /\ Len(commands.spawn_enemies) = 1

(* C9: in a frame without a live player no enemy is spawned and the timer
   advances by the delta of the frame *)
C9_TimerAdvancesWithoutPlayer ==
    (UpdateDone /\ Len(players) = 0) =>
        /\ Len(commands.spawn_enemies) = 0
        /\ timer.elapsed = (frame_start_elapsed + dt) % 1000

(* C10: a bullet that bullet_movement_system moved beyond 5000 units from the
   origin is gone when the frame ends, and the range check removes no bullet
   within 5000 units *)
C10_BulletRange ==
    /\ FrameEnds =>
         \A i \in 1..Len(bullets) :
            bullets[i].moved => LengthSquared(bullets[i].pos) <= 5000 * 5000
    /\ UpdateDone =>
         \A i \in Range(commands.bullet_movement_system) :
            LengthSquared(bullets[i].pos) > 5000 * 5000

(* at the end of an Update the range check has queued the despawn of a bullet *)
C10_Witness ==
    /\ UpdateDone
    /\ commands.bullet_movement_system /= <<>>

(* C11: with no movement key held, or with held keys that cancel (A with D,
   W with S), move_player leaves the player where it is; and a step that
   changes the position of the player is a step of move_player *)
C11_ZeroInputNoMove ==
    [][/\ \A keys \in KeySets :
            (/\ Len(players) = 1
             /\ ("KeyA" \in keys <=> "KeyD" \in keys)
             /\ ("KeyW" \in keys <=> "KeyS" \in keys))
                => MovedPlayer(players[1], keys) = players[1]
       /\ ("move_player" \in ran' \ ran /\ moves_seen' = moves_seen) => players' = players
       /\ (Len(players) = 1 /\ Len(players') = 1 /\ players'[1].pos /= players[1].pos)
            => "move_player" \in ran' \ ran]_vars

(* move_player ran in a frame of positive length with no direction held, on a
   player that an earlier frame had moved away from the origin *)
C11_Witness ==
    /\ pc = "Update" /\ "move_player" \in ran /\ dt > 0
    /\ Len(players) = 1 /\ players = start.players
    /\ players[1].pos /= ZERO

(* C12: an enemy whose health reached 0 is not hit again: the health of an
   enemy never becomes negative, and bullet_enemy_collision_system requests the
   despawn of an enemy at most once *)
C12_NoHitAfterDeath ==
    /\ \A i \in 1..Len(enemies) : enemies[i].health >= 0
    /\ \A j, k \in 1..Len(commands.hit_enemies) :
          j /= k => commands.hit_enemies[j] /= commands.hit_enemies[k]

(* C13: the collision systems take effect after the movement of the frame:
   enemy_player_collision_system requests GameOver exactly if an enemy is within
   the radius of the player on the moved positions, and every bullet that
   bullet_enemy_collision_system despawns overlaps an enemy on the moved
   positions *)
C13_CollisionAfterMovement ==
    [][/\ "enemy_player_collision_system" \in ran' \ ran =>
            ((next_state' = "GameOver")
                <=> (next_state = "GameOver" \/ PlayerHit(players, enemies)))
       /\ "bullet_enemy_collision_system" \in ran' \ ran =>
            \A k \in 1..Len(commands'.hit_bullets) :
               \E e \in 1..Len(enemies) :
                  BulletHits(bullets[commands'.hit_bullets[k]].pos, enemies[e].pos)]_vars

(* C14: in GameOver no GameOver transition is requested again; every enemy
   that exists was spawned in the current round, so a GameOver request of a
   round is preceded by a spawn of that round *)
C14_NoStaleCollision ==
    /\ state = "GameOver" => next_state /= "GameOver"
    /\ \A i \in 1..Len(enemies) : enemies[i].born = round
    /\ next_state = "GameOver" => (Len(enemies) > 0 \/ destroyed_reward > 0)

(* the round after a collision and a restart: enemy_player_collision_system
   ran on the new player and requested nothing *)
C14_Witness ==
    /\ pc = "Update" /\ round = 2 /\ state = "Playing" /\ Len(players) = 1
    /\ "enemy_player_collision_system" \in ran
    /\ next_state = "Unchanged"

(* C15: in GameOver no Player, Enemy or Bullet exists and none is queued for
   creation, in every frame until the restart is processed *)
C15_NothingCreatedInGameOver ==
    state = "GameOver" =>
        /\ RoundScoped = 0
        /\ commands.shoot_bullet = <<>>
        /\ commands.spawn_enemies = <<>>

(* the Update of a second frame in GameOver is over, with a press of the
   round's budget left to arrive *)
C15_Witness ==
    /\ UpdateDone /\ state = "GameOver" /\ frame > entered_frame
    /\ presses_seen < budget.presses
    /\ RoundScoped = 0

(* C16: at every frame boundary exactly one game-over message exists if the
   state is GameOver and none if it is Playing, however many enemies requested
   the transition *)
C16_OneGameOverText ==
    (UpdateStarts \/ FrameEnds) =>
        game_over_text = IF state = "GameOver" THEN 1 ELSE 0

(* GameOver was entered in this frame on the request of a frame in which
   several enemies were within the radius of the player *)
C16_Witness ==
    /\ UpdateStarts /\ state = "GameOver" /\ entered_frame = frame
    /\ requests >= 2
    /\ game_over_text = 1

(* C17: no lifecycle transition and no frame in GameOver changes the spawn
   timer; only spawn_enemies advances it, by the delta of the frame.  So the
   first frame of a round continues the period the last round left, and it
   spawns an enemy exactly if the time carried over plus its delta reaches
   one period *)
C17_TimerCarriedOver ==
    [][/\ state' /= state => timer' = timer
       /\ state = "GameOver" => timer' = timer
       /\ timer' /= timer =>
            /\ "spawn_enemies" \in ran' \ ran
            /\ timer'.elapsed = (timer.elapsed + dt) % 1000
       /\ (UpdateDone /\ state = "Playing" /\ entered_frame = frame) =>
            (Len(commands.spawn_enemies) = 1 <=> frame_start_elapsed + dt >= 1000)]_vars

(* the first frame of the second round lasted less than a period and spawned
   an enemy, on the time the first round had left on the timer *)
C17_Witness ==
    /\ UpdateDone /\ state = "Playing" /\ round = 2 /\ entered_frame = frame
    /\ frame_start_elapsed > 0 /\ dt < 1000
    /\ Len(commands.spawn_enemies) = 1

(* C18: a step taken in GameOver that stays in GameOver leaves the score as
   it is *)
C18_ScoreKeptInGameOver ==
    [][(state = "GameOver" /\ state' = "GameOver") => score' = score]_vars

(* bullet_enemy_collision_system ran in a second frame of a GameOver that
   ended a round with points scored *)
C18_Witness ==
    /\ pc = "Update" /\ state = "GameOver" /\ frame > entered_frame
    /\ "bullet_enemy_collision_system" \in ran
    /\ score > 0

(* C19: both overlap tests are strict.  bullet_enemy_collision_system hits
   exactly if, on the positions it reads, a bullet is closer than 15 to an
   enemy, and without a hit it leaves bullets, enemies and score as they are;
   enemy_player_collision_system requests GameOver exactly if, on the positions
   it reads, an enemy is closer than 20 to the player *)
C19_StrictOverlap ==
    [][/\ "bullet_enemy_collision_system" \in ran' \ ran =>
            /\ \E bq \in Views(start.bullets, bullets),
                  eq \in Views(start.enemies, enemies) :
                  (commands'.hit_bullets /= <<>>)
                     <=> \E b \in 1..Len(bq), e \in 1..Len(eq) :
                            DistanceSquared(bq[b].pos, eq[e].pos) < 15 * 15
            /\ commands'.hit_bullets = <<>> =>
                  (bullets' = bullets /\ enemies' = enemies /\ score' = score)
       /\ "enemy_player_collision_system" \in ran' \ ran =>
            \E q \in CollisionViews :
               (next_state' = "GameOver")
                  <=> \/ next_state = "GameOver"
                      \/ /\ Len(q.players) = 1
                         /\ \E i \in 1..Len(q.enemies) :
                              DistanceSquared(q.players[1].pos, q.enemies[i].pos)
                                 < 20 * 20]_vars

(* both collision systems ran in a frame that started with the bullet at
   exactly 15 from the enemy and the enemy at exactly 20 from the player, no
   distance being smaller in any order of the systems: nothing was hit and no
   transition requested *)
C19_Witness ==
    /\ pc = "Update"
    /\ {"bullet_enemy_collision_system", "enemy_player_collision_system"} \subseteq ran
    /\ Len(start.players) = 1 /\ Len(start.enemies) = 1 /\ Len(start.bullets) = 1
    /\ DistanceSquared(start.bullets[1].pos, start.enemies[1].pos) = 15 * 15
    /\ DistanceSquared(start.players[1].pos, start.enemies[1].pos) = 20 * 20
    /\ \A bq \in Views(start.bullets, bullets), eq \in Views(start.enemies, enemies) :
          DistanceSquared(bq[1].pos, eq[1].pos) >= 15 * 15
    /\ \A q \in CollisionViews :
          DistanceSquared(q.players[1].pos, q.enemies[1].pos) >= 20 * 20
    /\ commands.hit_bullets = <<>> /\ enemies[1].health = start.enemies[1].health
    /\ next_state = "Unchanged"

====
